---- MODULE Spec2Model ----
(***************************************************************************)
(* Maccabi Haifa calendar sync: the scraper (scaper.py), the fingerprint   *)
(* and the sync controller (auto_sync.py) and the event builder            *)
(* (add_to_calendar.py), as one state machine.                             *)
(*                                                                         *)
(* Text is kept as TLA+ strings, so that keys, fingerprints and titles are *)
(* built by concatenation exactly as the f-strings of the code build them. *)
(* The Hebrew texts of the site and of the code are written in Latin       *)
(* transliteration (makabi, liga, konferens, lo sofi, aug', ...): only     *)
(* their equality, containment and lexicographic order are used.           *)
(* Python's None is the value Null; Str(v) is what an f-string prints.     *)
(* md5 is taken as injective: a fingerprint is the string it digests.      *)
(***************************************************************************)
EXTENDS Integers, Sequences, FiniteSets, TLC

\* ------------------------------------------------------------------ bounds
MaxRuns == 2
MaxMatches == 2
MaxFaults == 2
MaxDivs == 2

\* -------------------------------------------------------------------- text
Null == "<None>"

Str(v) == IF v = Null THEN "None" ELSE v

Truthy(v) == v # Null /\ v # ""

\* A key that a dict does not hold.
Missing == "<missing>"

\* Characters of the modelled texts in code point order (Python compares
\* strings code point by code point).
CodePoints == " '()-.0123456789:ABCDEFGHIJKLMNOPQRSTUVWXYZabcdefghijklmnopqrstuvwxyz"

Ord(c) == IF \E i \in 1..Len(CodePoints) : SubSeq(CodePoints, i, i) = c
          THEN CHOOSE i \in 1..Len(CodePoints) : SubSeq(CodePoints, i, i) = c
          ELSE 0

RECURSIVE StrLess(_, _)
StrLess(s, t) ==
  IF t = "" THEN FALSE
  ELSE IF s = "" THEN TRUE
  ELSE LET a == Ord(SubSeq(s, 1, 1))
           b == Ord(SubSeq(t, 1, 1))
       IN  IF a # b THEN a < b ELSE StrLess(Tail(s), Tail(t))

Contains(s, t) ==
  \E i \in 1..(Len(s) - Len(t) + 1) : SubSeq(s, i, i + Len(t) - 1) = t

\* ---------------------------------------------------------------- fixtures
\* A fixture as parse_match_div returns it (all eight keys always present).
Fixture(day, month, time, competition, venue, home, away, marker) ==
  [date_day |-> day, date_month |-> month, time |-> time,
   competition |-> competition, venue |-> venue,
   home_team |-> home, away_team |-> away, not_final_time |-> marker]

\* Fixtures of the model: a plain one, a copy of it with another kick-off
\* time (same match key), one with a tentative marker, one whose time text
\* is no HH:MM (convert_utc_to_israel_time hands it back as is) and one
\* whose team spans were missing.
FixPlain == Fixture("7", "aug'", "22:00", "konferens lig", "sami ofer", "makabi", "rakuv", "")
FixMoved == Fixture("7", "aug'", "21:00", "konferens lig", "sami ofer", "makabi", "rakuv", "")
FixTentative == Fixture("14", "sept'", "20:30", "liga", "tedi", "hapoel", "makabi", "(lo sofi)")
FixNoTime == Fixture("21", "sept'", "terem nikba", "liga", "lo yadua", "makabi", "bnei sakhnin", "")
FixNoTeams == Fixture("28", "okt'", "19:00", "gavia", "lo yadua", Null, Null, "")

\* The fixtures the sync runs draw their scrape from.
Fixtures == {FixPlain, FixTentative, FixNoTime, FixNoTeams}

\* match_key of scrape_haifa_matches and of sync_calendar (the same f-string).
MatchKey(m) ==
  Str(m.date_day) \o "-" \o Str(m.date_month) \o "-" \o
  Str(m.home_team) \o "-" \o Str(m.away_team)

\* ----------------------------------------------------------------- scraper
\* A match div, as far as parse_match_div reads it: whether the date
\* container with its day and month spans is there, its texts, the texts of
\* the time and competition elements (Null: the element is missing), the
\* venue (Null: missing) and the texts of the span.lg:text-xl elements.
Div(has_date, day, month, date_text, time_raw, competition, venue, spans) ==
  [has_date |-> has_date, day |-> day, month |-> month, date_text |-> date_text,
   time_raw |-> time_raw, competition |-> competition, venue |-> venue,
   spans |-> spans]

\* No div at all.
DivOff == Div(FALSE, Null, Null, "", Null, Null, Null, <<>>)

Digits == "0123456789"

IsDigit(c) == \E i \in 1..Len(Digits) : SubSeq(Digits, i, i) = c

DigitVal(c) == (CHOOSE i \in 1..Len(Digits) : SubSeq(Digits, i, i) = c) - 1

\* int(s) succeeds (the texts are stripped by the scraper; signs and
\* underscores do not occur in them).
IsInt(s) == s # Null /\ s # "" /\ \A i \in 1..Len(s) : IsDigit(SubSeq(s, i, i))

RECURSIVE ToInt(_)
ToInt(s) ==
  IF s = "" THEN 0
  ELSE 10 * ToInt(SubSeq(s, 1, Len(s) - 1)) + DigitVal(SubSeq(s, Len(s), Len(s)))

Colons(s) == {i \in 1..Len(s) : SubSeq(s, i, i) = ":"}

\* hour, minute = map(int, time_str.split(':')) succeeds: two parts, both ints.
TimeParses(t) ==
  /\ t # Null
  /\ Cardinality(Colons(t)) = 1
  /\ LET c == CHOOSE i \in Colons(t) : TRUE
     IN  IsInt(SubSeq(t, 1, c - 1)) /\ IsInt(SubSeq(t, c + 1, Len(t)))

Hour(t) == ToInt(SubSeq(t, 1, (CHOOSE i \in Colons(t) : TRUE) - 1))

Minute(t) == ToInt(SubSeq(t, (CHOOSE i \in Colons(t) : TRUE) + 1, Len(t)))

\* strftime's %H and %M: two digits.
Pad2(n) == SubSeq(Digits, (n \div 10) + 1, (n \div 10) + 1)
           \o SubSeq(Digits, (n % 10) + 1, (n % 10) + 1)

\* datetime.strptime(time_str, "%H:%M") succeeds: one or two digits each,
\* an hour below 24 and a minute below 60.
StrptimeParses(t) ==
  /\ TimeParses(t)
  /\ LET c == CHOOSE i \in Colons(t) : TRUE
     IN  c - 1 \in 1..2 /\ Len(t) - c \in 1..2
  /\ Hour(t) \in 0..23
  /\ Minute(t) \in 0..59

\* The time of day moved from UTC to Asia/Jerusalem with the offset (in
\* hours) in force on the day the scraper runs; a text that is no time is
\* handed back as it is.
convert_utc_to_israel_time(time_str, offset) ==
  IF StrptimeParses(time_str)
  THEN Pad2((Hour(time_str) + offset) % 24) \o ":" \o Pad2(Minute(time_str))
  ELSE time_str

\* re.search(r'\([^)]*lo sofi[^)]*\)', text): the leftmost "(" whose text up
\* to the next ")" holds the token; the match runs to that ")".
BracketAt(text, i) ==
  /\ SubSeq(text, i, i) = "("
  /\ \E j \in (i + 1)..Len(text) :
       /\ SubSeq(text, j, j) = ")"
       /\ \A k \in (i + 1)..(j - 1) : SubSeq(text, k, k) # ")"
       /\ Contains(SubSeq(text, i + 1, j - 1), "lo sofi")

NotFinalIndicator(text) ==
  IF Contains(text, "lo sofi") /\ \E i \in 1..Len(text) : BracketAt(text, i)
  THEN LET i == CHOOSE a \in 1..Len(text) :
                  BracketAt(text, a) /\ \A b \in 1..(a - 1) : ~BracketAt(text, b)
           j == CHOOSE b \in (i + 1)..Len(text) :
                  /\ SubSeq(text, b, b) = ")"
                  /\ \A k \in (i + 1)..(b - 1) : SubSeq(text, k, k) # ")"
       IN  SubSeq(text, i, j)
  ELSE ""

\* The result of parse_match_div: <<fixture>>, or <<>> for None (a missing
\* element raises, the exception is caught and the div is skipped).
parse_match_div(div, offset) ==
  IF ~div.has_date \/ div.time_raw = Null \/ div.competition = Null
  THEN <<>>
  ELSE LET competition == IF Contains(div.competition, "WINNER") THEN "liga"
                          ELSE div.competition
           venue == IF div.venue = Null THEN "lo yadua" ELSE div.venue
           away0 == IF Len(div.spans) >= 3 THEN div.spans[2] ELSE Null
           home0 == IF Len(div.spans) >= 3 THEN div.spans[3] ELSE Null
           away == IF away0 = "makabi haifa" THEN "makabi" ELSE away0
           home == IF away0 # "makabi haifa" /\ home0 = "makabi haifa"
                   THEN "makabi" ELSE home0
       IN  <<Fixture(div.day, div.month,
                     convert_utc_to_israel_time(div.time_raw, offset),
                     competition, venue, home, away,
                     NotFinalIndicator(div.date_text))>>

\* Lines 86-94: the divs of one fetched page, added to what was found so far.
\* found is <<all_matches, processed_games>>.
RECURSIVE AddDivs(_, _, _)
AddDivs(divs, offset, found) ==
  IF divs = <<>> THEN found
  ELSE LET match_data == parse_match_div(Head(divs), offset)
           next == IF match_data # <<>> /\ MatchKey(match_data[1]) \notin found[2]
                   THEN <<Append(found[1], match_data[1]),
                          found[2] \cup {MatchKey(match_data[1])}>>
                   ELSE found
       IN  AddDivs(Tail(divs), offset, next)

\* A scrape that gives up the whole run at the first request that fails.
scrape_haifa_matches_StopsAtFailure(html, fetched, offset) ==
  IF fetched[1] /\ fetched[2]
  THEN AddDivs(html[2], offset, AddDivs(html[1], offset, <<<<>>, {}>>))[1]
  ELSE <<>>

\* Lines 73-101: both requests in turn; a request that fails is skipped.
scrape_haifa_matches(html, fetched, offset) ==
  LET after1 == IF fetched[1] THEN AddDivs(html[1], offset, <<<<>>, {}>>)
                ELSE <<<<>>, {}>>
      after2 == IF fetched[2] THEN AddDivs(html[2], offset, after1) ELSE after1
  IN  after2[1]

\* ------------------------------------------------------------- fingerprint
\* The sort key (date_month, date_day, time), compared as Python compares
\* tuples of strings.
KeyLess(a, b) ==
  IF a.date_month # b.date_month THEN StrLess(a.date_month, b.date_month)
  ELSE IF a.date_day # b.date_day THEN StrLess(a.date_day, b.date_day)
  ELSE StrLess(a.time, b.time)

\* Insert x after every element that is not greater than x (a stable sort).
RECURSIVE InsertSorted(_, _)
InsertSorted(x, s) ==
  IF s = <<>> THEN <<x>>
  ELSE IF KeyLess(x, Head(s)) THEN <<x>> \o s
  ELSE <<Head(s)>> \o InsertSorted(x, Tail(s))

\* sorted(matches, key=...): stable, so ties keep their input order.
RECURSIVE Sorted(_)
Sorted(s) ==
  IF s = <<>> THEN <<>>
  ELSE InsertSorted(s[Len(s)], Sorted(SubSeq(s, 1, Len(s) - 1)))

MatchString(m) ==
  Str(m.date_day) \o "-" \o Str(m.date_month) \o "-" \o Str(m.time) \o "-" \o
  Str(m.home_team) \o "-" \o Str(m.away_team) \o "-" \o Str(m.venue) \o "-" \o
  Str(m.competition) \o "-" \o Str(m.not_final_time)

RECURSIVE Concat(_)
Concat(s) == IF s = <<>> THEN "" ELSE MatchString(Head(s)) \o Concat(Tail(s))

calculate_matches_hash(ms) == Concat(Sorted(ms))

\* ------------------------------------------------------------ event builder
MonthLabels == <<"yan", "feb", "merts", "apr", "may", "yun",
                 "yul", "aug", "sept", "okt", "nov", "dets">>

\* month_map.get(month_hebrew, 1)
MonthOf(label) ==
  IF \E i \in 1..Len(MonthLabels) : label \in {MonthLabels[i], MonthLabels[i] \o "'"}
  THEN CHOOSE i \in 1..Len(MonthLabels) : label \in {MonthLabels[i], MonthLabels[i] \o "'"}
  ELSE 1

\* Year inference the other way round at the current month: a fixture of the
\* current month is put into next year.
YearOf_NextYearFromNow(month, today) ==
  IF month > today.month THEN today.year ELSE today.year + 1

\* year = current_year if month >= current_month else current_year + 1
YearOf(month, today) == IF month >= today.month THEN today.year ELSE today.year + 1

IsLeap(y) == (y % 4 = 0 /\ y % 100 # 0) \/ y % 400 = 0

DaysIn(month, year) ==
  IF month = 2 THEN (IF IsLeap(year) THEN 29 ELSE 28)
  ELSE IF month \in {4, 6, 9, 11} THEN 30 ELSE 31

\* The local part of add_event_from_json raises nothing: int(date_day), the
\* time split and datetime(year, month, day, hour, minute) all succeed.
Builds(m, today) ==
  /\ IsInt(m.date_day)
  /\ TimeParses(m.time)
  /\ LET month == MonthOf(m.date_month)
     IN  /\ ToInt(m.date_day) \in 1..DaysIn(month, YearOf(month, today))
         /\ Hour(m.time) \in 0..23
         /\ Minute(m.time) \in 0..59

\* A title that falls back to the competition when a team is None, not only
\* when its key is absent.
Title_CompetitionForNullTeams(m) ==
  LET title0 == IF m.competition = Missing THEN "Football Match"
                ELSE Str(m.competition)
      title1 == IF m.home_team \notin {Missing, Null} /\ m.away_team \notin {Missing, Null}
                THEN Str(m.away_team) \o " vs " \o Str(m.home_team)
                     \o (IF m.competition # Missing
                         THEN " - " \o Str(m.competition) ELSE "")
                ELSE title0
  IN  IF m.not_final_time # Missing /\ Truthy(m.not_final_time)
      THEN Str(m.not_final_time) \o " " \o title1
      ELSE title1

\* The summary of the inserted event. 'home_team' in event_data and the like
\* test that the key is there; a key holding None is there.
Title(m) ==
  LET title0 == IF m.competition = Missing THEN "Football Match"
                ELSE Str(m.competition)
      title1 == IF m.home_team # Missing /\ m.away_team # Missing
                THEN Str(m.away_team) \o " vs " \o Str(m.home_team)
                     \o (IF m.competition # Missing
                         THEN " - " \o Str(m.competition) ELSE "")
                ELSE title0
  IN  IF m.not_final_time # Missing /\ Truthy(m.not_final_time)
      THEN Str(m.not_final_time) \o " " \o title1
      ELSE title1

DateTime(year, month, day, hour, minute) ==
  [year |-> year, month |-> month, day |-> day, hour |-> hour, minute |-> minute]

\* dt + timedelta(hours=n), for 0 <= n < 24.
AddHours(dt, n) ==
  IF dt.hour + n < 24 THEN [dt EXCEPT !.hour = dt.hour + n]
  ELSE IF dt.day < DaysIn(dt.month, dt.year)
       THEN [dt EXCEPT !.hour = dt.hour + n - 24, !.day = dt.day + 1]
  ELSE IF dt.month < 12
       THEN [dt EXCEPT !.hour = dt.hour + n - 24, !.day = 1, !.month = dt.month + 1]
  ELSE [dt EXCEPT !.hour = dt.hour + n - 24, !.day = 1, !.month = 1,
                  !.year = dt.year + 1]

\* The event body of add_event_from_json, for data that builds. start and
\* end are wall-clock times sent with timeZone 'Asia/Jerusalem'.
EventBody(m, today) ==
  LET month == MonthOf(m.date_month)
      event_datetime == DateTime(YearOf(month, today), month, ToInt(m.date_day),
                                 Hour(m.time), Minute(m.time))
  IN  [summary |-> Title(m),
       location |-> IF m.venue = Missing THEN "" ELSE Str(m.venue),
       start |-> event_datetime,
       end |-> AddHours(event_datetime, 2)]

\* The test of get_existing_maccabi_events on an event's summary.
IsMaccabiTitle(summary) ==
  \/ Contains(summary, "makabi")
  \/ Contains(summary, "vs")
  \/ Contains(summary, "liga")
  \/ Contains(summary, "konferens")

\* ------------------------------------------------------------------- state
VARIABLES
  stateFile,        \* sync_state.json: absent, partial (no complete JSON) or complete
  calendar,         \* the events of the target calendar
  nextId,           \* the id the backend gives the next inserted event
  clock,            \* runs started so far (datetime.now() of the run)
  today,            \* datetime.now(): year and month
  faults,           \* failures the environment has injected so far
  pc,               \* where sync_calendar stands
  state,            \* sync_calendar's local: the loaded SyncState
  matches,          \* the scraped fixtures of this run
  current_hash,
  existing_events,  \* the listed Maccabi events, in list order
  deleted_count,
  added_count,
  failed_count,
  new_event_ids,
  di,               \* next index of the delete loop
  mi,               \* next index of the insert loop
  ops,              \* history: the calls of this run, in order
  file0,            \* history: stateFile when this run started
  cal0,             \* history: calendar when this run started
  outcome,          \* history: how this run ended ("running" until it does) and where
  prev,             \* history: the run before this one
  html,             \* the scraper alone: the match divs of the two fetched pages
  fetched,          \* the scraper alone: whether each request succeeded
  utc_offset,       \* the scraper alone: Asia/Jerusalem's offset on the day it runs
  all_matches,      \* the scraper alone: what scrape_haifa_matches returns
  spc,              \* the scraper alone: "off", "ready" or "done"
  listA,            \* the fingerprint alone: one fixture list
  listB,            \* the fingerprint alone: another fixture list
  hashA,            \* the fingerprint alone: calculate_matches_hash(listA)
  hashB,            \* the fingerprint alone: calculate_matches_hash(listB)
  hpc,              \* the fingerprint alone: "off", "ready" or "done"
  event_data,       \* the event builder alone: the dict given to add_event_from_json
  src_div,          \* the event builder alone: <<div>> the dict was parsed from, or <<>>
  scrape_offset,    \* the event builder alone: Asia/Jerusalem's offset when it was scraped
  current,          \* the event builder alone: datetime.now(), year and month
  built,            \* the event builder alone: <<body>> of the inserted event, or <<>>
  bpc,              \* the event builder alone: "off", "ready" or "done"
  u_matches,        \* the targeted update: the scraped fixtures
  u_remote,         \* the targeted update: the calendar's events, in start order
  u_listed,         \* the targeted update: existing_events, as listed
  u_calls,          \* the targeted update, history: the update calls, in order
  u_i,              \* the targeted update: next index of the loop over the fixtures
  updated_count,
  upc,              \* the targeted update: "off", "ready", "loop" or "done"
  u_run,            \* the targeted update: runs started so far
  u_list_ok,        \* the targeted update, history: the listing of this run was answered
  u_prev,           \* the targeted update, history: the run before this one
  match_div,        \* the field parser alone: the div given to parse_match_div
  parse_offset,     \* the field parser alone: Asia/Jerusalem's offset today
  match_data,       \* the field parser alone: <<fixture>> returned, or <<>> for None
  ppc               \* the field parser alone: "off", "ready" or "done"

vars == <<stateFile, calendar, nextId, clock, today, faults, pc, state, matches,
          current_hash, existing_events, deleted_count, added_count,
          failed_count, new_event_ids, di, mi, ops, file0, cal0, outcome, prev,
          html, fetched, utc_offset, all_matches, spc,
          listA, listB, hashA, hashB, hpc,
          event_data, src_div, scrape_offset, current, built, bpc,
          u_matches, u_remote, u_listed, u_calls, u_i, updated_count, upc,
          u_run, u_list_ok, u_prev,
          match_div, parse_offset, match_data, ppc>>

world == <<stateFile, calendar, nextId>>
scraper == <<html, fetched, utc_offset, all_matches, spc>>
hasher == <<listA, listB, hashA, hashB, hpc>>
builder == <<event_data, src_div, scrape_offset, current, built, bpc>>
updater == <<u_matches, u_remote, u_listed, u_calls, u_i, updated_count, upc,
             u_run, u_list_ok, u_prev>>
parser == <<match_div, parse_offset, match_data, ppc>>
aside == <<hasher, builder, updater, parser>>
sync == <<stateFile, calendar, nextId, clock, today, faults, pc, state, matches,
          current_hash, existing_events, deleted_count, added_count,
          failed_count, new_event_ids, di, mi, ops, file0, cal0, outcome, prev>>
locals == <<state, matches, current_hash, existing_events, deleted_count,
            added_count, failed_count, new_event_ids, di, mi>>

\* load_state's default: {"last_hash": None, "last_sync": None, "event_ids": {}}.
\* last_sync is the clock of the run that wrote it, 0 for None; event_ids is
\* a set of <<match key, event id>> pairs.
FirstRunState ==
  [last_hash |-> Null, last_sync |-> 0, event_ids |-> {}, last_match_count |-> 0]

Absent == [kind |-> "absent", data |-> FirstRunState]
Partial == [kind |-> "partial", data |-> FirstRunState]
Complete(st) == [kind |-> "complete", data |-> st]

\* A missing file and a file json.load cannot read both give the default.
load_state(f) == IF f.kind = "complete" THEN f.data ELSE FirstRunState

\* What the user keeps in the calendar beside the fixtures: an event with no
\* token in its title, one that happens to contain "vs", and a Maccabi match
\* outside the time window get_existing_events lists.
UserEvents ==
  { [id |-> 1, summary |-> "rofe shinayim", upcoming |-> TRUE],
    [id |-> 2, summary |-> "shakhmat: karlsen vs nakamura", upcoming |-> TRUE],
    [id |-> 3, summary |-> "hapoel vs makabi - liga", upcoming |-> FALSE] }

Todays == {[year |-> 2025, month |-> 8]}

\* The fixture lists a scrape can return: no two fixtures with one match key.
RECURSIVE SeqsUpTo(_, _)
SeqsUpTo(S, n) ==
  IF n = 0 THEN {<<>>}
  ELSE LET shorter == SeqsUpTo(S, n - 1)
       IN  shorter \cup {Append(s, x) : s \in shorter, x \in S}

ScrapeResults ==
  {s \in SeqsUpTo(Fixtures, MaxMatches) :
     \A i, j \in 1..Len(s) : i # j => MatchKey(s[i]) # MatchKey(s[j])}

Ended(how, where) == [end |-> how, at |-> where]

NoRun == [outcome |-> Ended("none", "idle"), matches |-> <<>>, ops |-> <<>>]

SyncInit ==
  /\ stateFile = Absent
  /\ calendar = UserEvents
  /\ nextId = 4
  /\ clock = 0
  /\ today \in Todays
  /\ faults = 0
  /\ pc = "idle"
  /\ state = FirstRunState
  /\ matches = <<>>
  /\ current_hash = Null
  /\ existing_events = <<>>
  /\ deleted_count = 0
  /\ added_count = 0
  /\ failed_count = 0
  /\ new_event_ids = {}
  /\ di = 1
  /\ mi = 1
  /\ ops = <<>>
  /\ file0 = Absent
  /\ cal0 = {}
  /\ outcome = Ended("none", "idle")
  /\ prev = NoRun

ScraperOff ==
  /\ html = <<<<>>, <<>>>>
  /\ fetched = <<TRUE, TRUE>>
  /\ utc_offset = 3
  /\ all_matches = <<>>
  /\ spc = "off"

HasherOff ==
  /\ listA = <<>>
  /\ listB = <<>>
  /\ hashA = ""
  /\ hashB = ""
  /\ hpc = "off"

BuilderOff ==
  /\ event_data = FixPlain
  /\ src_div = <<>>
  /\ scrape_offset = 3
  /\ current = [year |-> 2025, month |-> 8]
  /\ built = <<>>
  /\ bpc = "off"

UpdaterOff ==
  /\ u_matches = <<>>
  /\ u_remote = <<>>
  /\ u_listed = <<>>
  /\ u_calls = <<>>
  /\ u_i = 1
  /\ updated_count = 0
  /\ upc = "off"
  /\ u_run = 1
  /\ u_list_ok = FALSE
  /\ u_prev = [calls |-> <<>>, list_ok |-> FALSE, remote |-> <<>>]

ParserOff ==
  /\ match_div = DivOff
  /\ parse_offset = 2
  /\ match_data = <<>>
  /\ ppc = "off"

AsideOff == HasherOff /\ BuilderOff /\ UpdaterOff /\ ParserOff

Init ==
  /\ SyncInit
  /\ ScraperOff
  /\ AsideOff

\* ------------------------------------------------------------ sync_calendar
Call(op, arg, ok, sent) == [op |-> op, arg |-> arg, ok |-> ok, sent |-> sent]

\* A sync without the test for an empty scrape.
NoMatches_Never(ms) == FALSE

\* `if not matches`
NoMatches(ms) == ms = <<>>

\* A test that reads a key the state does not hold, and so compares with None.
Unchanged_WrongKey(h, st) == h = Null

\* A test that also skips the sync when there is no fingerprint to compare.
Unchanged_SkipsFirstRun(h, st) == st.last_hash = Null \/ h = st.last_hash

\* `if current_hash == state.get("last_hash")`
Unchanged(h, st) == h = st.last_hash

\* new_event_ids[match_key] = event_id
Put(map, k, v) == {p \in map : p[1] # k} \cup {<<k, v>>}

\* The events a successful listing returns that pass the title test, in the
\* order of the listing (here: by id).
RECURSIVE ById(_)
ById(S) ==
  IF S = {} THEN <<>>
  ELSE LET e == CHOOSE x \in S : \A y \in S : x.id <= y.id
       IN  <<e>> \o ById(S \ {e})

\* A filter that lost its "vs" test.
get_existing_maccabi_events_NoVs(cal) ==
  ById({e \in cal : e.upcoming /\ (\/ Contains(e.summary, "makabi")
                                   \/ Contains(e.summary, "liga")
                                   \/ Contains(e.summary, "konferens"))})

get_existing_maccabi_events(cal) ==
  ById({e \in cal : e.upcoming /\ IsMaccabiTitle(e.summary)})

\* An update that takes the new fingerprint only when every fixture got its
\* event.
UpdatedState_HashOnlyIfAllAdded(st, h, now, ids, n) ==
  [st EXCEPT !.last_hash = IF Cardinality(ids) = n THEN h ELSE st.last_hash,
             !.last_sync = now, !.event_ids = ids, !.last_match_count = n]

\* state.update({...}) of sync_calendar
UpdatedState(st, h, now, ids, n) ==
  [st EXCEPT !.last_hash = h, !.last_sync = now, !.event_ids = ids,
             !.last_match_count = n]

\* add_event_from_json's return value: the new event's id, or None (NoId)
\* when the fixture does not build or the insert call fails.
NoId == 0

add_event_from_json(m, now, ok, id) == IF Builds(m, now) /\ ok THEN id ELSE NoId

\* A loop that forgot to count a failed insert.
CountsAfterAdd_DropsFailure(added, failed, event_id) ==
  IF event_id # NoId THEN <<added + 1, failed>> ELSE <<added, failed>>

\* `if event_id: added_count += 1 ... else: failed_count += 1`
CountsAfterAdd(added, failed, event_id) ==
  IF event_id # NoId THEN <<added + 1, failed>> ELSE <<added, failed + 1>>

\* `if delete_event(...): deleted_count += 1`
CountAfterDelete(deleted, ok) == IF ok THEN deleted + 1 ELSE deleted

\* Lines 106-131: load the state, scrape, and decide. An empty scrape and an
\* unchanged fingerprint return at once.
StartSync ==
  /\ UNCHANGED scraper
  /\ UNCHANGED aside
  /\ pc = "idle"
  /\ clock < MaxRuns
  /\ \E ms \in ScrapeResults :
       LET st == load_state(stateFile)
           h == calculate_matches_hash(ms)
       IN  /\ matches' = ms
           /\ state' = st
           /\ IF NoMatches(ms)
              THEN /\ current_hash' = Null
                   /\ outcome' = Ended("nodata", "start")
                   /\ pc' = "idle"
              ELSE /\ current_hash' = h
                   /\ IF Unchanged(h, st)
                      THEN outcome' = Ended("unchanged", "start") /\ pc' = "idle"
                      ELSE outcome' = Ended("running", "start") /\ pc' = "init"
  /\ clock' = clock + 1
  /\ prev' = [outcome |-> outcome, matches |-> matches, ops |-> ops]
  /\ ops' = <<>>
  /\ file0' = stateFile
  /\ cal0' = calendar
  /\ existing_events' = <<>>
  /\ deleted_count' = 0
  /\ added_count' = 0
  /\ failed_count' = 0
  /\ new_event_ids' = {}
  /\ di' = 1
  /\ mi' = 1
  /\ UNCHANGED <<world, today, faults>>

\* Line 134: GoogleCalendarManager(). An exception reaches the handler at
\* line 179, which exits with status 1.
NewManager ==
  /\ UNCHANGED scraper
  /\ UNCHANGED aside
  /\ pc = "init"
  /\ \/ /\ ops' = Append(ops, Call("construct", 0, TRUE, TRUE))
        /\ pc' = "list"
        /\ UNCHANGED <<outcome, faults>>
     \/ /\ faults < MaxFaults
        /\ faults' = faults + 1
        /\ ops' = Append(ops, Call("construct", 0, FALSE, TRUE))
        /\ outcome' = Ended("fatal", "init")
        /\ pc' = "idle"
  /\ UNCHANGED <<world, clock, today, locals, file0, cal0, prev>>

\* Lines 137-138. A failed listing is caught and gives [].
ListEvents ==
  /\ UNCHANGED scraper
  /\ UNCHANGED aside
  /\ pc = "list"
  /\ \/ /\ existing_events' = get_existing_maccabi_events(calendar)
        /\ ops' = Append(ops, Call("list", 0, TRUE, TRUE))
        /\ UNCHANGED faults
     \/ /\ faults < MaxFaults
        /\ faults' = faults + 1
        /\ existing_events' = <<>>
        /\ ops' = Append(ops, Call("list", 0, FALSE, TRUE))
  /\ pc' = IF existing_events' = <<>> THEN "insert" ELSE "delete"
  /\ UNCHANGED <<world, clock, today, state, matches, current_hash, deleted_count,
                 added_count, failed_count, new_event_ids, di, mi,
                 file0, cal0, outcome, prev>>

\* Lines 142-144: one turn of the delete loop. delete_event catches a failed
\* call and returns False.
DeleteEvent ==
  /\ UNCHANGED scraper
  /\ UNCHANGED aside
  /\ pc = "delete"
  /\ \E ok \in BOOLEAN :
       LET e == existing_events[di]
       IN  /\ ~ok => faults < MaxFaults
           /\ faults' = IF ok THEN faults ELSE faults + 1
           /\ calendar' = IF ok THEN calendar \ {e} ELSE calendar
           /\ deleted_count' = CountAfterDelete(deleted_count, ok)
           /\ ops' = Append(ops, Call("delete", e.id, ok, TRUE))
  /\ di' = di + 1
  /\ pc' = IF di = Len(existing_events) THEN "insert" ELSE "delete"
  /\ UNCHANGED <<stateFile, nextId, clock, today, state, matches, current_hash,
                 existing_events, added_count, failed_count, new_event_ids, mi,
                 file0, cal0, outcome, prev>>

\* Lines 153-164: one turn of the insert loop, but for the state file. The
\* insert call is sent when the fixture builds; ok is its answer.
AddEventCore ==
  /\ UNCHANGED scraper
  /\ UNCHANGED aside
  /\ pc = "insert"
  /\ \E ok \in BOOLEAN :
       LET m == matches[mi]
           sent == Builds(m, today)
           event_id == add_event_from_json(m, today, ok, nextId)
           counts == CountsAfterAdd(added_count, failed_count, event_id)
       IN  /\ ~sent => ok
           /\ ~ok => faults < MaxFaults
           /\ faults' = IF ok THEN faults ELSE faults + 1
           /\ calendar' = IF event_id # NoId
                          THEN calendar \cup {[id |-> event_id, summary |-> Title(m),
                                               upcoming |-> TRUE]}
                          ELSE calendar
           /\ nextId' = IF event_id # NoId THEN nextId + 1 ELSE nextId
           /\ added_count' = counts[1]
           /\ failed_count' = counts[2]
           /\ new_event_ids' = IF event_id # NoId
                               THEN Put(new_event_ids, MatchKey(m), event_id)
                               ELSE new_event_ids
           /\ ops' = Append(ops, Call("add", mi, event_id # NoId, sent))
  /\ mi' = mi + 1
  /\ pc' = IF mi = Len(matches) THEN "save" ELSE "insert"
  /\ UNCHANGED <<clock, today, state, matches, current_hash,
                 existing_events, deleted_count, di, file0, cal0, outcome, prev>>

\* A sync that saved its state after every insert, not once after the loop.
AddEvent_SavesEachTurn ==
  /\ AddEventCore
  /\ stateFile' = Complete(UpdatedState(state, current_hash, clock,
                                        new_event_ids', Len(matches)))

\* The insert loop leaves the state file alone.
AddEvent ==
  /\ AddEventCore
  /\ UNCHANGED stateFile

\* Lines 169-175 and save_state's open(STATE_FILE, "w"): the state is updated
\* in memory, then the file is opened for writing, which empties it. A failed
\* open is caught and logged.
SaveOpen ==
  /\ UNCHANGED scraper
  /\ UNCHANGED aside
  /\ pc = "save"
  /\ state' = UpdatedState(state, current_hash, clock, new_event_ids, Len(matches))
  /\ \/ /\ stateFile' = Partial
        /\ pc' = "write"
        /\ UNCHANGED <<outcome, faults>>
     \/ /\ faults < MaxFaults
        /\ faults' = faults + 1
        /\ outcome' = Ended("unsaved", "save")
        /\ pc' = "idle"
        /\ UNCHANGED stateFile
  /\ UNCHANGED <<calendar, nextId, clock, today, matches, current_hash,
                 existing_events, deleted_count, added_count, failed_count,
                 new_event_ids, di, mi, ops, file0, cal0, prev>>

\* save_state's json.dump into the open file. A failed write is caught and
\* logged, and leaves what was written so far.
SaveWrite ==
  /\ UNCHANGED scraper
  /\ UNCHANGED aside
  /\ pc = "write"
  /\ \/ /\ stateFile' = Complete(state)
        /\ outcome' = Ended("completed", "write")
        /\ UNCHANGED faults
     \/ /\ faults < MaxFaults
        /\ faults' = faults + 1
        /\ outcome' = Ended("unsaved", "write")
        /\ UNCHANGED stateFile
  /\ pc' = "idle"
  /\ UNCHANGED <<calendar, nextId, clock, today, locals, ops, file0, cal0, prev>>

\* The process dies (killed, power loss) wherever it stands.
Crash ==
  /\ UNCHANGED scraper
  /\ UNCHANGED aside
  /\ pc # "idle"
  /\ faults < MaxFaults
  /\ faults' = faults + 1
  /\ outcome' = Ended("crashed", pc)
  /\ pc' = "idle"
  /\ UNCHANGED <<world, clock, today, locals, ops, file0, cal0, prev>>

Next ==
  \/ StartSync
  \/ NewManager
  \/ ListEvents
  \/ DeleteEvent
  \/ AddEvent
  \/ SaveOpen
  \/ SaveWrite
  \/ Crash

Spec == Init /\ [][Next]_vars

\* ------------------------------------------------- setup_initial_sync
\* setup_sync.py, lines 27-97: the calendar access is tested, the site is
\* scraped, and the state file is written with the fingerprint of the scrape
\* and no event ids; no event is inserted. A failed test or scrape returns
\* before the file is opened, a failed write leaves what open(..., "w") and
\* a broken json.dump leave. The keys setup_date and setup_version, which
\* sync_calendar never reads, are left out.
initial_state(ms, now) ==
  [last_hash |-> calculate_matches_hash(ms), last_sync |-> now,
   event_ids |-> {}, last_match_count |-> Len(ms)]

SetupInitialSync ==
  /\ UNCHANGED scraper
  /\ UNCHANGED aside
  /\ pc = "idle"
  /\ clock < MaxRuns
  /\ clock' = clock + 1
  /\ \/ UNCHANGED stateFile
     \/ stateFile' = Partial
     \/ \E ms \in ScrapeResults :
          stateFile' = Complete(initial_state(ms, clock + 1))
  /\ UNCHANGED <<calendar, nextId, today, faults, pc, locals, ops, file0, cal0,
                 outcome, prev>>

NextSetup ==
  \/ Next
  \/ SetupInitialSync

SpecSetup == Init /\ [][NextSetup]_vars

\* ------------------------------------------------------ scraper on its own
\* The match divs the pages are made of: a fixture, the same fixture with
\* another kick-off time, another fixture (tentative, long club name), a div
\* without its date container, and two fixtures of one day whose team names
\* hold a "-".
DivPlain == Div(TRUE, "7", "aug'", "7 aug'", "19:00", "konferens lig", "sami ofer",
                <<"konferens lig", "rakuv", "makabi haifa">>)
DivMoved == Div(TRUE, "7", "aug'", "7 aug'", "18:00", "konferens lig", "sami ofer",
                <<"konferens lig", "rakuv", "makabi haifa">>)
DivOther == Div(TRUE, "14", "sept'", "14 sept' (lo sofi)", "17:30", "WINNER", Null,
                <<"WINNER", "makabi haifa", "hapoel">>)
DivBroken == Div(FALSE, Null, Null, "", "20:00", "liga", Null, <<>>)
DivDashHome == Div(TRUE, "21", "sept'", "21 sept'", "17:00", "liga", "blumfild",
                   <<"liga", "makabi", "tel-aviv">>)
DivDashAway == Div(TRUE, "21", "sept'", "21 sept'", "17:00", "liga", "blumfild",
                   <<"liga", "aviv-makabi", "tel">>)

Divs == {DivPlain, DivMoved, DivOther, DivBroken, DivDashHome, DivDashAway}

Pages == SeqsUpTo(Divs, MaxDivs)

InitScrape ==
  /\ SyncInit
  /\ AsideOff
  /\ html \in Pages \X Pages
  /\ fetched \in BOOLEAN \X BOOLEAN
  /\ utc_offset \in {2, 3}
  /\ all_matches = <<>>
  /\ spc = "ready"

Scrape ==
  /\ spc = "ready"
  /\ all_matches' = scrape_haifa_matches(html, fetched, utc_offset)
  /\ spc' = "done"
  /\ UNCHANGED <<world, clock, today, faults, pc, locals, ops, file0, cal0,
                 outcome, prev, html, fetched, utc_offset>>
  /\ UNCHANGED aside

NextScrape == Scrape

SpecScrape == InitScrape /\ [][NextScrape]_vars

\* --------------------------------------------------- fingerprint on its own
\* Fixtures for the fingerprint: a second fixture in the slot (month label,
\* day, time) of FixPlain, and the two fixtures that parse_match_div makes of
\* DivDashHome and DivDashAway.
FixSameSlot == Fixture("7", "aug'", "22:00", "liga", "tedi", "hapoel", "makabi", "")
FixDashHome == Fixture("21", "sept'", "20:00", "liga", "blumfild", "tel-aviv", "makabi", "")
FixDashAway == Fixture("21", "sept'", "20:00", "liga", "blumfild", "tel", "aviv-makabi", "")

HashFixtures == {FixPlain, FixMoved, FixSameSlot, FixDashHome, FixDashAway, FixNoTeams}

HashLists == SeqsUpTo(HashFixtures, MaxMatches)

InitHash ==
  /\ SyncInit
  /\ ScraperOff
  /\ BuilderOff
  /\ UpdaterOff
  /\ ParserOff
  /\ listA \in HashLists
  /\ listB \in HashLists
  /\ hashA = ""
  /\ hashB = ""
  /\ hpc = "ready"

Fingerprint ==
  /\ hpc = "ready"
  /\ hashA' = calculate_matches_hash(listA)
  /\ hashB' = calculate_matches_hash(listB)
  /\ hpc' = "done"
  /\ UNCHANGED <<sync, scraper, builder, updater, parser, listA, listB>>

NextHash == Fingerprint

SpecHash == InitHash /\ [][NextHash]_vars

\* ------------------------------------------------- event builder on its own
\* Asia/Jerusalem is UTC+3 from the Friday before the last Sunday of March to
\* the last Sunday of October and UTC+2 otherwise: the offsets a day of the
\* month can have.
Offsets(month) ==
  IF month \in {3, 10} THEN {2, 3}
  ELSE IF month \in 4..9 THEN {3} ELSE {2}

Nows == {[year |-> 2025, month |-> c] : c \in 1..12}

\* Dicts given to add_event_from_json by hand (add_match_to_calendar takes
\* any JSON): one fixture for every month label, a date that does not exist,
\* and dicts that lack the team keys, the competition key or both.
MonthFixture(label) ==
  Fixture("15", label, "20:00", "liga", "sami ofer", "makabi", "hapoel", "")

DataNoSuchDay == Fixture("30", "feb", "20:00", "liga", "sami ofer", "makabi", "hapoel", "")
DataNoTeams == Fixture("7", "aug'", "22:00", "gavia", "sami ofer", Missing, Missing, Missing)
DataNoTeamsMarked ==
  Fixture("7", "aug'", "22:00", "gavia", Missing, Missing, Missing, "(lo sofi)")
DataNoCompetition ==
  Fixture("7", "aug'", "22:00", Missing, "sami ofer", "makabi", "rakuv", "(lo sofi)")
DataBare == Fixture("7", "aug'", "22:00", Missing, Missing, Missing, Missing, Missing)

ManualData ==
  {MonthFixture(MonthLabels[i]) : i \in 1..Len(MonthLabels)}
  \cup {FixTentative, FixNoTime, FixNoTeams, DataNoSuchDay, DataNoTeams,
        DataNoTeamsMarked, DataNoCompetition, DataBare}

\* Divs whose fixtures are built: an evening match of the summer, a late one
\* (22:30 UTC), and one of the winter.
DivLate == Div(TRUE, "7", "aug'", "7 aug'", "22:30", "konferens lig", "sami ofer",
               <<"konferens lig", "rakuv", "makabi haifa">>)
DivWinter == Div(TRUE, "15", "nov'", "15 nov'", "18:00", "WINNER", "sami ofer",
                 <<"WINNER", "hapoel", "makabi haifa">>)

BuildDivs == {DivPlain, DivOther, DivLate, DivWinter}

InitBuild ==
  /\ SyncInit
  /\ ScraperOff
  /\ HasherOff
  /\ UpdaterOff
  /\ ParserOff
  /\ current \in Nows
  /\ scrape_offset \in Offsets(current.month)
  /\ \/ src_div = <<>> /\ event_data \in ManualData
     \/ \E d \in BuildDivs :
          /\ src_div = <<d>>
          /\ event_data = parse_match_div(d, scrape_offset)[1]
  /\ built = <<>>
  /\ bpc = "ready"

\* add_event_from_json on its own: the body that is inserted when the data
\* builds and the backend takes the insert.
Build ==
  /\ bpc = "ready"
  /\ \E ok \in BOOLEAN :
       built' = IF add_event_from_json(event_data, current, ok, 1) # NoId
                THEN <<EventBody(event_data, current)>> ELSE <<>>
  /\ bpc' = "done"
  /\ UNCHANGED <<sync, scraper, hasher, updater, parser, event_data, src_div,
                 scrape_offset, current>>

NextBuild == Build

SpecBuild == InitBuild /\ [][NextBuild]_vars

\* ---------------------------------------------- parse_match_div on its own
\* The texts a date container can have: the date alone, the token in a
\* bracket, after another bracket, without a bracket, after a bracket that
\* closed before it, and in a bracket that never closes.
DateTexts ==
  {"7 aug'", "7 aug' (lo sofi)", "7 aug' (zmani) (moed lo sofi)",
   "7 aug' lo sofi", "(7 aug') lo sofi", "7 aug' (lo sofi"}

\* The team spans after the competition span: none, the club at home, away,
\* on both sides, on neither, and in its short form.
TeamSpans ==
  {<<>>, <<"hapoel", "makabi haifa">>, <<"makabi haifa", "hapoel">>,
   <<"makabi haifa", "makabi haifa">>, <<"hapoel", "beitar">>,
   <<"makabi", "makabi haifa">>}

ParseDivs ==
  {Div(TRUE, "7", "aug'", text, time_raw, competition, venue,
       <<competition>> \o teams) :
     text \in DateTexts, time_raw \in {"19:00"}, competition \in {"liga", "WINNER"},
     venue \in {Null, "sami ofer"}, teams \in TeamSpans}
  \cup {DivBroken,
         Div(TRUE, "7", "aug'", "7 aug' lo sofi", Null, "liga", Null,
             <<"liga", "makabi haifa", "makabi haifa">>)}

InitParse ==
  /\ SyncInit
  /\ ScraperOff
  /\ HasherOff
  /\ BuilderOff
  /\ UpdaterOff
  /\ match_div \in ParseDivs
  /\ parse_offset \in {2, 3}
  /\ match_data = <<>>
  /\ ppc = "ready"

Parse ==
  /\ ppc = "ready"
  /\ match_data' = parse_match_div(match_div, parse_offset)
  /\ ppc' = "done"
  /\ UNCHANGED <<sync, scraper, hasher, builder, updater, match_div, parse_offset>>

NextParse == Parse

SpecParse == InitParse /\ [][NextParse]_vars

\* ------------------------------------------- find_and_update_maccabi_events
MaxEvents == 2
MaxUpdateRuns == 2

\* An event as the backend lists it. A key the backend leaves out is Missing.
Event(id, summary, location, description, start, end, reminders) ==
  [id |-> id, summary |-> summary, location |-> location,
   description |-> description, start |-> start, end |-> end,
   reminders |-> reminders]

\* Fixtures of one pairing: a cup match with and without the marker, before
\* the league match FixTentative of the same month.
FixCupPlain == Fixture("2", "sept'", "19:00", "gavia", "tedi", "hapoel", "makabi", "")
FixCupTentative ==
  Fixture("2", "sept'", "19:00", "gavia", "tedi", "hapoel", "makabi", "(lo sofi)")

UpdateFixtures == {FixPlain, FixCupPlain, FixCupTentative, FixTentative}

UpdateScrapes ==
  {s \in SeqsUpTo(UpdateFixtures, MaxMatches) :
     \A i, j \in 1..Len(s) : i # j => MatchKey(s[i]) # MatchKey(s[j])}

\* The events of the calendar: those of FixPlain, of the cup match (it has no
\* location; once as inserted and once with the marker set by an earlier
\* run) and of the league match. Ids follow the start times.
EvOther == Event(10, "rakuv vs makabi - konferens lig", "sami ofer",
                 "Football match: rakuv vs makabi - konferens lig",
                 "2025-08-07T22:00", "2025-08-08T00:00", "email 1440, popup 60")
EvCup == Event(11, "makabi vs hapoel - gavia", Missing,
               "Football match: makabi vs hapoel - gavia",
               "2025-09-02T19:00", "2025-09-02T21:00", "email 1440, popup 60")
EvLeague == Event(12, "makabi vs hapoel - liga", "tedi",
                  "Football match: makabi vs hapoel - liga",
                  "2025-09-14T20:30", "2025-09-14T22:30", "email 1440, popup 60")
EvCupMarked == Event(11, "(lo sofi) makabi vs hapoel - gavia", Missing,
                     "Football match: makabi vs hapoel - gavia",
                     "2025-09-02T19:00", "2025-09-02T21:00", "useDefault")

EventPool == {EvOther, EvCup, EvCupMarked, EvLeague}

UpdateCalendars ==
  {s \in SeqsUpTo(EventPool, MaxEvents) :
     \A i, j \in 1..Len(s) : i < j => s[i].id < s[j].id}

\* `if not match.get('not_final_time'): continue`
HasMarker(match) == Truthy(match.not_final_time)

match_title_base(match) == Str(match.away_team) \o " vs " \o Str(match.home_team)

\* The test of line 333-335 on one listed event.
Eligible(match, event) ==
  /\ Contains(event.summary, match_title_base(match))
  /\ ~Contains(event.summary, "lo sofi")
  /\ HasMarker(match)

\* A search that goes on to the last event that passes the test.
FoundEvent_Last(match, events) ==
  IF \E j \in 1..Len(events) : Eligible(match, events[j])
  THEN CHOOSE j \in 1..Len(events) :
         /\ Eligible(match, events[j])
         /\ \A k \in (j + 1)..Len(events) : ~Eligible(match, events[k])
  ELSE 0

\* The inner loop with its break: the index of the first listed event that
\* passes the test, 0 when none does.
FoundEvent(match, events) ==
  IF \E j \in 1..Len(events) : Eligible(match, events[j])
  THEN CHOOSE j \in 1..Len(events) :
         /\ Eligible(match, events[j])
         /\ \A k \in 1..(j - 1) : ~Eligible(match, events[k])
  ELSE 0

\* event.get(key, '')
GetOrEmpty(v) == IF v = Missing THEN "" ELSE v

\* event.get(key)
GetOrNone(v) == IF v = Missing THEN Null ELSE v

\* A body that takes over the title only.
updated_event_TitleOnly(match, event) ==
  [summary |-> match.not_final_time \o " " \o event.summary,
   location |-> "", description |-> "", start |-> GetOrNone(event.start),
   end |-> GetOrNone(event.end), reminders |-> Null]

\* Lines 338-348: the body of the update.
updated_event(match, event) ==
  [summary |-> match.not_final_time \o " " \o event.summary,
   location |-> GetOrEmpty(event.location),
   description |-> GetOrEmpty(event.description),
   start |-> GetOrNone(event.start),
   end |-> GetOrNone(event.end),
   reminders |-> GetOrNone(event.reminders)]

\* events().update replaces the event by the body; the id stays.
Updated(remote, id, body) ==
  [j \in 1..Len(remote) |->
     IF remote[j].id = id
     THEN Event(id, body.summary, body.location, body.description,
                body.start, body.end, body.reminders)
     ELSE remote[j]]

InitUpdate ==
  /\ SyncInit
  /\ ScraperOff
  /\ HasherOff
  /\ BuilderOff
  /\ ParserOff
  /\ u_matches \in UpdateScrapes
  /\ u_remote \in UpdateCalendars
  /\ u_listed = <<>>
  /\ u_calls = <<>>
  /\ u_i = 1
  /\ updated_count = 0
  /\ upc = "ready"
  /\ u_run = 1
  /\ u_list_ok = FALSE
  /\ u_prev = [calls |-> <<>>, list_ok |-> FALSE, remote |-> <<>>]

\* Lines 312-318: the scrape and the listing; get_existing_events gives []
\* when the backend fails.
ListForUpdate ==
  /\ upc = "ready"
  /\ \E ok \in BOOLEAN :
       /\ u_listed' = IF ok THEN u_remote ELSE <<>>
       /\ u_list_ok' = ok
  /\ upc' = IF u_matches = <<>> THEN "done" ELSE "loop"
  /\ UNCHANGED <<sync, scraper, hasher, builder, parser, u_matches, u_remote, u_calls,
                 u_i, updated_count, u_run, u_prev>>

\* Lines 320-355: one turn of the loop over the fixtures. The update call is
\* sent for the event found, and ok is its answer.
UpdateForMatch ==
  /\ upc = "loop"
  /\ LET match == u_matches[u_i]
         j == FoundEvent(match, u_listed)
     IN  IF j = 0
         THEN UNCHANGED <<u_remote, u_calls, updated_count>>
         ELSE \E ok \in BOOLEAN :
                LET body == updated_event(match, u_listed[j])
                IN  /\ u_calls' = Append(u_calls, [match |-> u_i, id |-> u_listed[j].id,
                                                   body |-> body, ok |-> ok])
                    /\ u_remote' = IF ok THEN Updated(u_remote, u_listed[j].id, body)
                                   ELSE u_remote
                    /\ updated_count' = IF ok THEN updated_count + 1
                                        ELSE updated_count
  /\ u_i' = u_i + 1
  /\ upc' = IF u_i = Len(u_matches) THEN "done" ELSE "loop"
  /\ UNCHANGED <<sync, scraper, hasher, builder, parser, u_matches, u_listed, u_run,
                 u_list_ok, u_prev>>

\* find_and_update_maccabi_events is called again, on the calendar as the
\* run before left it and with the same fixtures scraped.
UpdateAgain ==
  /\ upc = "done"
  /\ u_run < MaxUpdateRuns
  /\ u_run' = u_run + 1
  /\ u_prev' = [calls |-> u_calls, list_ok |-> u_list_ok, remote |-> u_remote]
  /\ u_listed' = <<>>
  /\ u_calls' = <<>>
  /\ u_i' = 1
  /\ updated_count' = 0
  /\ u_list_ok' = FALSE
  /\ upc' = "ready"
  /\ UNCHANGED <<sync, scraper, hasher, builder, parser, u_matches, u_remote>>

NextUpdate ==
  \/ ListForUpdate
  \/ UpdateForMatch
  \/ UpdateAgain

SpecUpdate == InitUpdate /\ [][NextUpdate]_vars

\* ------------------------------------------------------------------ claims
\* The calls of this run that went to the Calendar Backend.
BackendCalls(calls) == SelectSeq(calls, LAMBDA c : c.sent)

Started == outcome.end # "none"

\* The run has returned, however it ended.
Returned == pc = "idle" /\ Started

\* The run went through the whole delete-then-insert plan.
PlanDone == pc \in {"save", "write"} \/ (pc = "idle" /\ outcome.end \in {"completed", "unsaved"})

\* This run was fed the scrape of the run before it.
SameScrape == Started /\ prev.outcome.end # "none" /\ matches = prev.matches

\* The run passed the fingerprint test and went on to reconcile.
Reconciles == Started /\ outcome.end \notin {"nodata", "unchanged"}

Failed(calls, op) == \E i \in 1..Len(calls) : calls[i].op = op /\ ~calls[i].ok

Succeeded(calls, op) == \E i \in 1..Len(calls) : calls[i].op = op /\ calls[i].ok

\* C1 as stated: Unchanged-skip. When sync_calendar runs twice in a row and
\* the second scrape returns the fixtures of the first, the second run makes
\* no backend call at all: no construction, no list, no delete, no insert.
C1_SecondRunMakesNoCall ==
  SameScrape => BackendCalls(ops) = <<>>

\* C1 as amended: the same, when the first run returned with its fingerprint
\* persisted: it wrote its state, or it had itself found nothing changed or
\* no fixtures. The second run then returns at the fingerprint test (or at
\* the test for an empty scrape) and leaves the calendar as it was.
C1_UnchangedSkip ==
  (SameScrape /\ prev.outcome.end \in {"completed", "unchanged", "nodata"})
    => /\ ops = <<>>
       /\ outcome.end \in {"unchanged", "nodata"}
       /\ calendar = cal0

C1_Witness ==
  /\ SameScrape
  /\ prev.outcome.end = "completed"
  /\ Succeeded(prev.ops, "add")
  /\ outcome.end = "unchanged"

\* C2: A fully failed reconciliation (the listing fails and every insert
\* fails, so no delete is even tried) leaves the persisted last_hash at its
\* old value.
C2_FullyFailedKeepsOldHash ==
  (PlanDone /\ pc = "idle"
     /\ Failed(ops, "list")
     /\ \A i \in 1..Len(ops) : ops[i].op \in {"list", "delete", "add"} => ~ops[i].ok)
    => load_state(stateFile).last_hash = load_state(file0).last_hash

\* C3: Partial failure still persists the fingerprint. A changed sync with
\* at least one insert done and at least one delete or insert failed is not
\* cut short by the failure; once it has written its state the persisted
\* last_hash is the fingerprint of the scrape, and a next run on the same
\* scrape changes nothing and retries nothing.
PartialFailure(calls) ==
  Succeeded(calls, "add") /\ (Failed(calls, "delete") \/ Failed(calls, "add"))

C3_PartialFailurePersists ==
  /\ (Returned /\ PartialFailure(ops))
       => outcome.end \in {"completed", "unsaved", "crashed"}
  /\ (Returned /\ PartialFailure(ops) /\ outcome.end = "completed")
       => /\ stateFile.kind = "complete"
          /\ stateFile.data.last_hash = calculate_matches_hash(matches)
  /\ (SameScrape /\ PartialFailure(prev.ops) /\ prev.outcome.end = "completed")
       => ops = <<>> /\ outcome.end = "unchanged"

C3_Witness ==
  /\ SameScrape
  /\ PartialFailure(prev.ops)
  /\ prev.outcome.end = "completed"
  /\ outcome.end = "unchanged"

\* C4: The state file is written only after the whole plan has run. Up to
\* the end of the insert loop it is what it was when the run started, a
\* crash during the delete or insert loop leaves it so, and the next run on
\* the same scrape reconciles again.
C4_StateWrittenOnlyAfterPlan ==
  /\ pc \in {"init", "list", "delete", "insert", "save"} => stateFile = file0
  /\ (Returned /\ outcome.end = "crashed" /\ outcome.at \in {"delete", "insert"})
       => stateFile = file0
  /\ (SameScrape /\ prev.outcome.end = "crashed"
        /\ prev.outcome.at \in {"delete", "insert"})
       => Reconciles

C4_Witness ==
  /\ SameScrape
  /\ prev.outcome = Ended("crashed", "insert")
  /\ Succeeded(prev.ops, "delete")
  /\ Succeeded(prev.ops, "add")
  /\ pc = "delete"

\* C5: An empty scrape never wipes the calendar: the run returns with no
\* backend call made and with the state file and the calendar as they were.
C5_EmptyScrapeTouchesNothing ==
  (Started /\ matches = <<>>)
    => /\ pc = "idle"
       /\ outcome.end = "nodata"
       /\ ops = <<>>
       /\ stateFile = file0
       /\ calendar = cal0

C5_Witness ==
  /\ Started
  /\ matches = <<>>
  /\ stateFile.kind = "complete"
  /\ stateFile.data.event_ids # {}
  /\ \E e \in calendar : e.id > 3

\* Every call that was sent to the backend in this run was answered.
NoBackendFailure == \A i \in 1..Len(ops) : ops[i].sent => ops[i].ok

NewEvents == calendar \ cal0

\* Fixture i of the scrape has its one new event in the calendar.
HasItsEvent(i) ==
  \E p \in new_event_ids :
    /\ p[1] = MatchKey(matches[i])
    /\ \E e \in NewEvents : e.id = p[2] /\ e.summary = Title(matches[i])

HasNoEvent(i) == \A p \in new_event_ids : p[1] # MatchKey(matches[i])

MatchingGone ==
  \A e \in cal0 : (e.upcoming /\ IsMaccabiTitle(e.summary)) => e \notin calendar

OthersKept == \A e \in cal0 : ~IsMaccabiTitle(e.summary) => e \in calendar

DeletesBeforeInserts ==
  \A i, j \in 1..Len(ops) : (ops[i].op = "add" /\ ops[j].op = "delete") => j < i

\* C6 as stated: after a changed sync with no failed backend call, the
\* listed events with a token in the title are gone, the events with none
\* are kept as they were, every scraped fixture has exactly one new event,
\* and no delete follows an insert.
C6_OneEventPerScrapedFixture ==
  (PlanDone /\ NoBackendFailure)
    => /\ MatchingGone
       /\ OthersKept
       /\ DeletesBeforeInserts
       /\ Cardinality(NewEvents) = Len(matches)
       /\ \A i \in 1..Len(matches) : HasItsEvent(i)

\* C6 as amended: the same, with one new event for every scraped fixture
\* that builds (its day, month and time give a date) and none for a fixture
\* that does not.
C6_FullReplace ==
  (PlanDone /\ NoBackendFailure)
    => /\ MatchingGone
       /\ OthersKept
       /\ DeletesBeforeInserts
       /\ Cardinality(NewEvents)
            = Cardinality({i \in 1..Len(matches) : Builds(matches[i], today)})
       /\ \A i \in 1..Len(matches) :
            IF Builds(matches[i], today) THEN HasItsEvent(i) ELSE HasNoEvent(i)

C6_Witness ==
  /\ pc = "idle"
  /\ PlanDone
  /\ NoBackendFailure
  /\ Succeeded(ops, "delete")
  /\ Len(matches) = 2
  /\ \E e \in cal0 : e.id > 3 /\ e \notin calendar
  /\ Cardinality(NewEvents) = 2

\* C7: Failure isolation. A failed delete or insert does not end the run;
\* when the plan is through, the delete attempts are the listed matching
\* events, one each and in order, the insert attempts are the scraped
\* fixtures, one each and in order, and added_count + failed_count is the
\* number of scraped fixtures.
Attempts(op) == SelectSeq(ops, LAMBDA c : c.op = op)

C7_FailureIsolation ==
  /\ PlanDone
       => /\ Len(Attempts("delete")) = Len(existing_events)
          /\ \A i \in 1..Len(existing_events) :
               Attempts("delete")[i].arg = existing_events[i].id
          /\ Len(Attempts("add")) = Len(matches)
          /\ \A i \in 1..Len(matches) : Attempts("add")[i].arg = i
          /\ added_count + failed_count = Len(matches)
  /\ (Returned /\ (Failed(ops, "delete") \/ Failed(ops, "add"))
        /\ outcome.end # "crashed")
       => PlanDone

C7_Witness ==
  /\ pc = "idle"
  /\ outcome.end = "completed"
  /\ Failed(ops, "delete")
  /\ \E i \in 1..Len(ops) : ops[i].op = "add" /\ ops[i].sent /\ ~ops[i].ok
  /\ Len(matches) = 2
  /\ added_count = 1

\* C8: The state file is never partially written: it holds the complete
\* state it held when the run started, or the complete new state.
C8_StateFileNeverPartial ==
  \/ stateFile = file0
  \/ stateFile = Complete(state)

\* C9: State-store failures. A missing or unreadable state file loads as
\* the first-run state and any non-empty scrape then reconciles; a run whose
\* state write failed has returned like any other, and the next run on the
\* same scrape reconciles again.
C9_StateStoreFailure ==
  /\ (Started /\ file0.kind # "complete"
        /\ pc \in {"init", "list", "delete", "insert", "save"})
       => state = FirstRunState
  /\ (Started /\ file0.kind # "complete" /\ matches # <<>>) => Reconciles
  /\ (SameScrape /\ prev.outcome.end = "unsaved") => Reconciles

C9_Witness ==
  /\ SameScrape
  /\ prev.outcome = Ended("unsaved", "write")
  /\ file0.kind = "partial"
  /\ pc = "list"

\* The fixtures parsed from the pages that were fetched, in discovery order:
\* page 1 before page 2, document order within a page.
RECURSIVE ParsedAll(_, _)
ParsedAll(divs, offset) ==
  IF divs = <<>> THEN <<>>
  ELSE parse_match_div(Head(divs), offset) \o ParsedAll(Tail(divs), offset)

Discovered ==
  (IF fetched[1] THEN ParsedAll(html[1], utc_offset) ELSE <<>>)
  \o (IF fetched[2] THEN ParsedAll(html[2], utc_offset) ELSE <<>>)

\* The key of the claim: the four fields themselves.
KeyTuple(m) == <<m.date_day, m.date_month, m.home_team, m.away_team>>

FirstOfItsKeyTuple(seen, i) ==
  \A j \in 1..(i - 1) : KeyTuple(seen[j]) # KeyTuple(seen[i])

RECURSIVE FirstCopies(_, _)
FirstCopies(seen, i) ==
  IF i > Len(seen) THEN <<>>
  ELSE (IF FirstOfItsKeyTuple(seen, i) THEN <<seen[i]>> ELSE <<>>)
       \o FirstCopies(seen, i + 1)

\* C10: Deduplication across fetches. The output of scrape_haifa_matches
\* holds exactly one fixture per distinct key (day, month label, home, away)
\* found in the fetched pages, namely the first copy seen, in discovery
\* order.
C10_OneFixturePerKey ==
  spc = "done" => all_matches = FirstCopies(Discovered, 1)

\* The first copy of every match key (the key string of the scraper) of a
\* list of parsed fixtures, in the order of the list.
FirstOfItsMatchKey(seen, i) ==
  \A j \in 1..(i - 1) : MatchKey(seen[j]) # MatchKey(seen[i])

RECURSIVE FirstByMatchKey(_, _)
FirstByMatchKey(seen, i) ==
  IF i > Len(seen) THEN <<>>
  ELSE (IF FirstOfItsMatchKey(seen, i) THEN <<seen[i]>> ELSE <<>>)
       \o FirstByMatchKey(seen, i + 1)

PageFixtures(p) == FirstByMatchKey(ParsedAll(html[p], utc_offset), 1)

\* C11: Partial-fetch resilience. When fetch 1 fails the output is the
\* parsable fixtures of page 2, one per match key, and when fetch 2 fails it
\* is those of page 1; whatever becomes of fetch 2, the fixtures collected
\* from a fetched page 1 stay at the head of the output.
C11_PartialFetchResilience ==
  spc = "done" =>
    /\ (~fetched[1] /\ fetched[2]) => all_matches = PageFixtures(2)
    /\ (fetched[1] /\ ~fetched[2]) => all_matches = PageFixtures(1)
    /\ fetched[1] => /\ Len(all_matches) >= Len(PageFixtures(1))
                     /\ SubSeq(all_matches, 1, Len(PageFixtures(1))) = PageFixtures(1)

C11_Witness ==
  /\ spc = "done"
  /\ ~fetched[1]
  /\ fetched[2]
  /\ Len(ParsedAll(html[1], utc_offset)) = 2
  /\ Len(all_matches) = 2

Count(s, x) == Cardinality({i \in 1..Len(s) : s[i] = x})

\* t holds the fixtures of s, each as often, in any order.
IsPermutation(s, t) ==
  /\ Len(s) = Len(t)
  /\ \A i \in 1..Len(s) : Count(s, s[i]) = Count(t, s[i])

\* C12: Fingerprint stability. A fixture list and any permutation of it have
\* the same fingerprint, fixtures that share the sort key (month label, day,
\* time) included.
C12_FingerprintOfPermutation ==
  (hpc = "done" /\ IsPermutation(listA, listB)) => hashA = hashB

\* C13: Fingerprint sensitivity. Two fixture lists that do not hold the same
\* fixtures (some fixture differs in a tracked field) give different strings
\* to digest, with "-" in a field and null fields included.
C13_FingerprintTellsApart ==
  (hpc = "done" /\ ~IsPermutation(listA, listB)) => hashA # hashB

NullTeams(m) == m.home_team = Null /\ m.away_team = Null

\* C15: A fixture whose home and away team are both null is dropped
\* downstream: a changed sync sends no insert for it, puts no event for it in
\* the calendar and gives it no entry in the persisted event_ids.
C15_NullTeamsFixtureDropped ==
  \A i \in 1..Len(matches) :
    (Started /\ NullTeams(matches[i]))
      => /\ \A j \in 1..Len(ops) : ~(ops[j].op = "add" /\ ops[j].arg = i /\ ops[j].sent)
         /\ \A e \in NewEvents : e.summary # Title(matches[i])
         /\ (stateFile # file0 /\ stateFile.kind = "complete")
              => \A p \in stateFile.data.event_ids : p[1] # MatchKey(matches[i])

\* A field that holds a text: the key is there and its value is not null.
Present(v) == v # Missing /\ v # Null

TeamsPresent(m) == Present(m.home_team) /\ Present(m.away_team)

\* The title as the claim builds it.
ClaimedTitle(m) ==
  LET base == IF TeamsPresent(m)
              THEN m.away_team \o " vs " \o m.home_team
                   \o (IF Present(m.competition) THEN " - " \o m.competition ELSE "")
              ELSE m.competition
  IN  IF Present(m.not_final_time) /\ m.not_final_time # ""
      THEN m.not_final_time \o " " \o base
      ELSE base

\* C14: Title construction. The title of the event that add_event_from_json
\* inserts is the competition name when the team names are not both present,
\* "<away> vs <home>" with " - <competition>" after it when a competition is
\* present, and in either case the marker and one space before it when the
\* marker is not empty.
C14_TitleConstruction ==
  (bpc = "done" /\ built # <<>>
     /\ (TeamsPresent(event_data) \/ Present(event_data.competition)))
    => built[1].summary = ClaimedTitle(event_data)

\* The month number that a month label stands for (0 for no label).
LabelMonth(label) ==
  IF \E i \in 1..12 : label \in {MonthLabels[i], MonthLabels[i] \o "'"}
  THEN CHOOSE i \in 1..12 : label \in {MonthLabels[i], MonthLabels[i] \o "'"}
  ELSE 0

\* C16: Year inference. For a fixture of month m built in current month c
\* the event's year is the current year when m >= c and the next year when
\* m < c, so its (year, month) is one of the 12 months that start with the
\* current month.
C16_YearInference ==
  (bpc = "done" /\ built # <<>> /\ LabelMonth(event_data.date_month) # 0)
    => LET m == LabelMonth(event_data.date_month)
           c == current.month
           start == built[1].start
       IN  /\ start.month = m
           /\ m >= c => start.year = current.year
           /\ m < c => start.year = current.year + 1
           /\ (start.year - current.year) * 12 + (start.month - c) \in 0..11

C16_Witness ==
  /\ bpc = "done"
  /\ built # <<>>
  /\ current.month = 8
  /\ event_data = MonthFixture("merts")
  /\ built[1].start.year = current.year + 1

\* The wall-clock time in Asia/Jerusalem of the UTC time of a div, with
\* offset hours added and the day moved on when that passes midnight.
LocalStart(d, offset) ==
  LET month == LabelMonth(d.month)
  IN  AddHours(DateTime(YearOf(month, current), month, ToInt(d.day),
                        Hour(d.time_raw), Minute(d.time_raw)), offset)

\* C17: Time-zone conversion. The start of the event inserted for a scraped
\* fixture is the fixture's day, month and UTC time taken to Asia/Jerusalem
\* with the offset of the fixture's own date, the day moving on when the
\* conversion passes midnight.
C17_StartIsLocalTimeOfFixtureDate ==
  (bpc = "done" /\ built # <<>> /\ src_div # <<>>)
    => built[1].start \in {LocalStart(src_div[1], offset) :
                             offset \in Offsets(LabelMonth(src_div[1].month))}

\* The base title "<away> vs <home>" of a fixture, as the claims spell it.
BaseTitle(m) == m.away_team \o " vs " \o m.home_team

\* The listed event with an id.
Listed(id) == CHOOSE e \in {u_listed[j] : j \in 1..Len(u_listed)} : e.id = id

CallsFor(i) == {k \in 1..Len(u_calls) : u_calls[k].match = i}

\* The listed events that no answered update call was sent for are in the
\* calendar as they were listed.
UncalledKept ==
  \A j \in 1..Len(u_listed) :
    (\A k \in 1..Len(u_calls) : u_calls[k].ok => u_calls[k].id # u_listed[j].id)
      => u_remote[j] = u_listed[j]

\* Two listed events hold the base title of fixture i, which has a marker.
TwoHoldBaseTitle(i) ==
  /\ u_matches[i].not_final_time # ""
  /\ Len(u_listed) = 2
  /\ \A j \in 1..2 : Contains(u_listed[j].summary, BaseTitle(u_matches[i]))

NoToken(i) == \A j \in 1..2 : ~Contains(u_listed[j].summary, "lo sofi")

\* C18 as stated: of two listed events whose titles hold the base title of a
\* fixture with a marker, the first in list order gets the fixture's update
\* and the second none; a fixture has at most one update call in a run.
C18_FirstOfTwoIsUpdated ==
  \A i \in 1..Len(u_matches) :
    /\ Cardinality(CallsFor(i)) <= 1
    /\ (u_i > i /\ TwoHoldBaseTitle(i))
         => /\ \E k \in CallsFor(i) : u_calls[k].id = u_listed[1].id
            /\ \A k \in CallsFor(i) : u_calls[k].id # u_listed[2].id

\* C18 as amended: the same for two listed events that hold the base title
\* and not yet the marker token; an event no answered call went to is as it
\* was listed, whether the call for the first event was answered or failed.
C18_FirstMatchWins ==
  /\ \A i \in 1..Len(u_matches) :
       /\ Cardinality(CallsFor(i)) <= 1
       /\ (u_i > i /\ TwoHoldBaseTitle(i) /\ NoToken(i))
            => /\ \E k \in CallsFor(i) : u_calls[k].id = u_listed[1].id
               /\ \A k \in CallsFor(i) : u_calls[k].id # u_listed[2].id
  /\ UncalledKept

C18_Witness ==
  /\ upc = "done"
  /\ u_matches = <<FixTentative>>
  /\ u_listed = <<EvCup, EvLeague>>
  /\ Len(u_calls) = 1
  /\ ~u_calls[1].ok
  /\ u_remote = u_listed

\* C19: Targeted update changes only the title. The body of every update
\* call has the marker, one space and the title of the event as listed for
\* summary, and the listed event's location (empty for an event without
\* one), start, end and reminders; after an answered call the event has them.
C19_UpdateChangesTitleOnly ==
  \A k \in 1..Len(u_calls) :
    LET e == Listed(u_calls[k].id)
        m == u_matches[u_calls[k].match]
        body == u_calls[k].body
    IN  /\ body.summary = m.not_final_time \o " " \o e.summary
        /\ body.location = (IF e.location = Missing THEN "" ELSE e.location)
        /\ body.start = e.start
        /\ body.end = e.end
        /\ body.reminders = e.reminders
        /\ (k = Len(u_calls) /\ u_calls[k].ok)
             => \E j \in 1..Len(u_remote) :
                  /\ u_remote[j].id = e.id
                  /\ u_remote[j].summary = body.summary
                  /\ u_remote[j].start = e.start
                  /\ u_remote[j].end = e.end
                  /\ u_remote[j].reminders = e.reminders

C19_Witness ==
  /\ upc = "done"
  /\ Len(u_calls) = 1
  /\ u_calls[1].ok
  /\ u_calls[1].id = EvLeague.id
  /\ \E j \in 1..Len(u_remote) :
       /\ u_remote[j].summary = "(lo sofi) makabi vs hapoel - liga"
       /\ u_remote[j].location = "tedi"

\* C20: Fixtures without a marker are not touched. No update call is made
\* for a fixture whose marker is empty, and the listed event of such a
\* fixture (the event with the fixture's title) keeps its title, whatever
\* other fixtures are scraped with it.
C20_UnmarkedFixtureUntouched ==
  \A i \in 1..Len(u_matches) :
    u_matches[i].not_final_time = ""
      => /\ CallsFor(i) = {}
         /\ \A j \in 1..Len(u_listed) :
              u_listed[j].summary = Title(u_matches[i])
                => u_remote[j].summary = u_listed[j].summary

\* The run before this one listed the events and had every update call
\* answered.
FirstRunSucceeded ==
  /\ u_run = 2
  /\ u_prev.list_ok
  /\ \A k \in 1..Len(u_prev.calls) : u_prev.calls[k].ok

\* C21: Targeted update is idempotent. A second run on the same scraped
\* fixtures, after a first run whose updates were all answered, makes no
\* update call and counts 0, and the calendar stays as the first run left it.
C21_SecondUpdateRunDoesNothing ==
  FirstRunSucceeded
    => /\ u_calls = <<>>
       /\ updated_count = 0
       /\ u_remote = u_prev.remote

\* The bracketed annotations of a text that enclose the token: from a "("
\* to the first ")" after it, with the token in between.
Enclosing(text) ==
  {SubSeq(text, i, j) : i \in 1..Len(text), j \in 1..Len(text)}
  \cap {b \in {SubSeq(text, i, j) : i \in 1..Len(text), j \in 1..Len(text)} :
          /\ Len(b) >= 2
          /\ SubSeq(b, 1, 1) = "("
          /\ SubSeq(b, Len(b), Len(b)) = ")"
          /\ ~Contains(SubSeq(b, 2, Len(b) - 1), ")")
          /\ Contains(b, "lo sofi")}

\* C22: Tentative-marker extraction. When the text of the date container
\* holds the token, the marker of the parsed fixture is not empty: it is a
\* bracketed annotation enclosing the token when there is one and the token
\* itself otherwise; the marker is empty only when the token is not there.
C22_MarkerExtraction ==
  (ppc = "done" /\ match_data # <<>>)
    => LET text == match_div.date_text
           marker == match_data[1].not_final_time
       IN  /\ Contains(text, "lo sofi") => marker # ""
           /\ (Contains(text, "lo sofi") /\ Enclosing(text) # {})
                => marker \in Enclosing(text)
           /\ (Contains(text, "lo sofi") /\ Enclosing(text) = {})
                => marker = "lo sofi"
           /\ ~Contains(text, "lo sofi") => marker = ""

\* C23: Team-name normalization. In a fixture returned by parse_match_div
\* neither the home team nor the away team is the long form of the club's
\* name, whatever the two names in the div were.
C23_NoLongFormName ==
  (ppc = "done" /\ match_data # <<>>)
    => /\ match_data[1].home_team # "makabi haifa"
       /\ match_data[1].away_team # "makabi haifa"

\* Fixture i of the scrape has an event to come in the calendar.
InCalendar(i) ==
  \E e \in calendar : e.upcoming /\ e.summary = Title(matches[i])

\* C24: "Up to date" is truthful. Whenever sync_calendar returns through the
\* "No changes detected" branch, after any setup_initial_sync and
\* sync_calendar runs, the calendar holds an event for every fixture of the
\* scrape.
C24_UpToDateIsTruthful ==
  (Returned /\ outcome.end = "unchanged")
    => \A i \in 1..Len(matches) : InCalendar(i)

\* The ids of the events in the calendar.
CalendarIds == {e.id : e \in calendar}

\* The <<match key, event id>> pairs of the events the sync has created: what
\* the run before persisted and what this run has inserted so far.
CreatedBefore == load_state(file0).event_ids

\* C25: No duplicate events. Whatever delete and insert calls fail, with the
\* listing answered, the calendar never holds two events that the sync
\* created for one fixture key (day, month label, home, away).
C25_NoDuplicateEvents ==
  ~Failed(ops, "list")
    => \A p \in new_event_ids, q \in CreatedBefore :
         (p[1] = q[1] /\ p[2] # q[2])
           => ~(p[2] \in CalendarIds /\ q[2] \in CalendarIds)

\* An event that the sync inserted: not one of the user's.
SyncCreated(e) == e.id \notin {u.id : u \in UserEvents}

IsListed(e) == \E j \in 1..Len(existing_events) : existing_events[j] = e

====
